---- MODULE Spec2Model ----
(***************************************************************************)
(* A model of beam_py: generateBeam (the 2D beam field and the line-of-    *)
(* sight profile), the main body of generateBeam.py (scatter, noise and DM *)
(* search stages) and rvm (the rotating vector model).                     *)
(*                                                                         *)
(* Floating-point quantities are modelled in fixed point: a real v is the  *)
(* integer floor(v * FScale).  Angular coordinates are integers in a unit  *)
(* chosen so that the grid nodes and the index step dx are whole numbers.  *)
(***************************************************************************)
EXTENDS Integers, Sequences, FiniteSets, TLC

(***************************************************************************)
(* Bounds of the model.                                                    *)
(***************************************************************************)
\* number of grid nodes per axis (res = 1e3 in the program, scaled down)
Res == 5
\* patches per component (npatch)
NPatch == 2
\* number of line-of-sight samples gathered into the profile
NLos == 2

\* largest number of frequency channels (nch)
NCh == 3
\* number of phase bins of a profile
NBin == 3
\* largest number of trial DM values in dm_range
MaxTrials == 3

\* number of phases in xprof
NPts == 2

\* fixed-point scale of a float: v is held as floor(v * FScale)
FScale == 10000

\* np.pi in fixed point
PiFp == 31416

None == "None"

(***************************************************************************)
(* Variables of generateBeam.                                              *)
(***************************************************************************)
VARIABLES bpc, do_ab, heights, centers, cid, pidx, Z, xlos, ylos, ZxIdx, ZyIdx, bprof

beamVars == <<bpc, do_ab, heights, centers, cid, pidx, Z, xlos, ylos, ZxIdx, ZyIdx, bprof>>

(***************************************************************************)
(* Variables of the main body of generateBeam.py.  An empty sequence in    *)
(* best_dm stands for a name that is not bound yet, and in snr for None;   *)
(* a bound value v is <<v>>.                                               *)
(***************************************************************************)
VARIABLES mpc, nch, iseed, scr, snr, prof, sc_prof, peaks, profile, dm_range,
          dm_id, shifted_profile, average_profile, peaks_of_average, best_dm

mainVars == <<mpc, nch, iseed, scr, snr, prof, sc_prof, peaks, profile, dm_range,
              dm_id, shifted_profile, average_profile, peaks_of_average, best_dm>>

(***************************************************************************)
(* Variables of rvm.  A float is a record: nan tells a NaN from the finite *)
(* fixed-point value v.                                                    *)
(***************************************************************************)
VARIABLES rpc, alpha, beta, phi0, psi0, xprof, point, allpsi

rvmVars == <<rpc, alpha, beta, phi0, psi0, xprof, point, allpsi>>

vars == <<beamVars, mainVars, rvmVars>>

(***************************************************************************)
(* Grid setup (generateBeam.py lines 40-51).                               *)
(***************************************************************************)
\* xmax - xmin: 360 degrees, in model units
Span == Res * (Res - 1)
xmin == -(Span \div 2)
xmax == Span \div 2
ymin == -(Span \div 2)
ymax == Span \div 2
dx == (xmax - xmin) \div Res
dy == (ymax - ymin) \div Res

Idx == 0 .. (Res - 1)

\* np.linspace(lo, hi, num=res, endpoint=True)
linspace(lo, hi) == [i \in Idx |-> lo + i * ((hi - lo) \div (Res - 1))]
x == linspace(xmin, xmax)
y == linspace(ymin, ymax)

\* X, Y = np.meshgrid(x, y): X[i][j] = x[j] and Y[i][j] = y[i]
X == [i \in Idx |-> [j \in Idx |-> x[j]]]
Y == [i \in Idx |-> [j \in Idx |-> y[i]]]

ZeroField == [i \in Idx |-> [j \in Idx |-> 0]]

peakAmp == 1

BeamIdle ==
  /\ bpc = "idle" /\ do_ab = None /\ heights = <<>> /\ centers = <<>>
  /\ cid = 0 /\ pidx = 0 /\ Z = ZeroField /\ xlos = <<>> /\ ylos = <<>>
  /\ ZxIdx = <<>> /\ ZyIdx = <<>> /\ bprof = <<>>

MainIdle ==
  /\ mpc = "idle" /\ nch = 0 /\ iseed = 0 /\ scr = None /\ snr = <<>>
  /\ prof = <<>> /\ sc_prof = <<>> /\ peaks = <<>> /\ profile = <<>>
  /\ dm_range = <<>> /\ dm_id = 0 /\ shifted_profile = <<>>
  /\ average_profile = <<>> /\ peaks_of_average = <<>> /\ best_dm = <<>>

RvmIdle ==
  /\ rpc = "idle" /\ alpha = 0 /\ beta = 0 /\ phi0 = 0 /\ psi0 = 0
  /\ xprof = <<>> /\ point = 0 /\ allpsi = <<>>

(***************************************************************************)
(* np.exp of a non-positive argument -num/den, in fixed point.             *)
(***************************************************************************)
RECURSIVE ExpNegInt(_)
\* floor(FScale * e^-k), 0 once the value underflows
ExpNegInt(k) ==
  IF k = 0 THEN FScale
  ELSE IF k >= 10 THEN 0
  ELSE (ExpNegInt(k - 1) * 3679) \div 10000

RECURSIVE ExpTaylor(_, _, _, _)
\* sum over n of (-r)^n / n!, r in [0, FScale) a fixed-point fraction
ExpTaylor(r, n, term, acc) ==
  IF n > 10 \/ term = 0 THEN acc
  ELSE LET t == (term * r) \div (FScale * n)
       IN ExpTaylor(r, n + 1, t, IF n % 2 = 1 THEN acc - t ELSE acc + t)

ExpNeg(num, den) ==
  LET k == num \div den
      r == ((num % den) * FScale) \div den
      f == ExpTaylor(r, 1, FScale, FScale)
  IN (ExpNegInt(k) * f) \div FScale

(***************************************************************************)
(* Inputs of generateBeam that come from beamModel (lines 55-63).          *)
(***************************************************************************)
\* emission heights of the components, one entry per component
HeightLists == {<<4>>, <<1, 4>>, <<4, 1>>}

RECURSIVE Isqrt(_, _)
Isqrt(n, r) == IF (r + 1) * (r + 1) > n THEN r ELSE Isqrt(n, r + 1)

\* bm.patch_width(P, heights): the opening-angle law, width ~ sqrt(height / P)
patch_width(hs) == [c \in DOMAIN hs |-> 2 * Isqrt(hs[c], 0)]

\* bm.aberration(heights, P, alpha): per-height offsets, growing with height
aberration_x(hs) == [c \in DOMAIN hs |-> 2 * hs[c]]
aberration_y(hs) == [c \in DOMAIN hs |-> hs[c]]

\* bm.patch_center(...): candidate patch centers: a grid node, and two points
\* between nodes
CenterSet == {<<x[1], y[2]>>, <<x[3] + 1, y[1]>>, <<x[2] - 1, y[3] + 2>>}

\* bm.los(alpha, beta, res): candidate line-of-sight points: two inside the
\* grid, one on the upper bound, one below the lower bound
LosSet == {<<x[1], y[2]>>, <<x[3] + 1, y[1]>>, <<xmax, y[2]>>, <<xmin - dx, y[2]>>}

(***************************************************************************)
(* The patch accumulation loop (lines 66-87).                              *)
(***************************************************************************)
Sq(a) == a * a

\* (X - cx)**2 + (Y - cy)**2 at cell (i, j); the code's distance is
\* sqrt(Dist2) / sigmax
Dist2(i, j, cx, cy) == Sq(X[i][j] - cx) + Sq(Y[i][j] - cy)

\* a cutoff mask that was left out: every distance is kept
CutoffMissing(d2, sigmax) == d2

\* line 82: distance[np.where(distance > 3.0)] = 0.0
\* (distance > 3 iff Dist2 > 9 sigmax^2; the kept value stands for the distance)
Cutoff(d2, sigmax) == IF d2 > 9 * sigmax * sigmax THEN 0 ELSE d2

\* line 83: distance[np.where(distance != 0.0)] = peakAmp
Mask(d) == IF d # 0 THEN peakAmp ELSE 0

\* the indicator that multiplies the kernel: always measured from pc
Indicator(i, j, pc, sigmax) == Mask(Cutoff(Dist2(i, j, pc[1], pc[2]), sigmax))

\* np.exp(-((X-cx)**2 / (2*sigmax**2) + (Y-cy)**2 / (2*sigmay**2)))
Gauss(i, j, cx, cy, sigmax, sigmay) ==
  ExpNeg(Sq(X[i][j] - cx) * Sq(sigmay) + Sq(Y[i][j] - cy) * Sq(sigmax),
         2 * Sq(sigmax) * Sq(sigmay))

\* lines 84-87: the center of the kernel
KernelCenter(pc, c, ab) ==
  IF ab = None THEN pc
  ELSE <<pc[1] + aberration_x(heights)[c], pc[2] + aberration_y(heights)[c]>>

\* the field one patch adds to Z
PatchField(pc, c, ab) ==
  LET sigmax == patch_width(heights)[c]
      sigmay == patch_width(heights)[c]
      kc     == KernelCenter(pc, c, ab)
  IN [i \in Idx |-> [j \in Idx |->
        Indicator(i, j, pc, sigmax) * Gauss(i, j, kc[1], kc[2], sigmax, sigmay)]]

BeamInit ==
  /\ MainIdle
  /\ RvmIdle
  /\ bpc = "patches"
  /\ do_ab \in {None, "yes"}
  /\ heights \in HeightLists
  /\ centers \in [DOMAIN heights -> [1 .. NPatch -> CenterSet]]
  /\ cid = 1
  /\ pidx = 1
  /\ Z = ZeroField
  /\ xlos = <<>> /\ ylos = <<>>
  /\ ZxIdx = <<>> /\ ZyIdx = <<>>
  /\ bprof = <<>>

\* one pass of the inner loop body, lines 76-87
AddPatch ==
  /\ bpc = "patches"
  /\ LET f == PatchField(centers[cid][pidx], cid, do_ab)
     IN Z' = [i \in Idx |-> [j \in Idx |-> Z[i][j] + f[i][j]]]
  /\ IF pidx < NPatch
       THEN /\ pidx' = pidx + 1
            /\ UNCHANGED <<cid, bpc>>
       ELSE IF cid < Len(heights)
         THEN /\ cid' = cid + 1
              /\ pidx' = 1
              /\ UNCHANGED bpc
         ELSE /\ bpc' = "gather"
              /\ UNCHANGED <<cid, pidx>>
  /\ UNCHANGED <<do_ab, heights, centers, xlos, ylos, ZxIdx, ZyIdx, bprof>>
  /\ UNCHANGED <<mainVars, rvmVars>>

(***************************************************************************)
(* Profile extraction (lines 89-92).                                       *)
(***************************************************************************)
\* the float-to-int cast of np.array(..., dtype=int): truncation toward zero
TruncDiv(a, b) == IF a >= 0 THEN a \div b ELSE -((-a) \div b)

ToIndex(coord, lo, step) == TruncDiv(coord - lo, step)

\* numpy indexing of an axis of length Res: negative indices count from the end
IndexOk(i) == i >= -Res /\ i < Res
Wrap(i) == IF i < 0 THEN i + Res ELSE i

Gather ==
  /\ bpc = "gather"
  /\ \E pts \in [1 .. NLos -> LosSet] :
       LET zx == [k \in 1 .. NLos |-> ToIndex(pts[k][1], xmin, dx)]
           zy == [k \in 1 .. NLos |-> ToIndex(pts[k][2], ymin, dy)]
       IN /\ xlos' = [k \in 1 .. NLos |-> pts[k][1]]
          /\ ylos' = [k \in 1 .. NLos |-> pts[k][2]]
          /\ ZxIdx' = zx
          /\ ZyIdx' = zy
          /\ IF \A k \in 1 .. NLos : IndexOk(zx[k]) /\ IndexOk(zy[k])
               THEN /\ bprof' = [k \in 1 .. NLos |-> Z[Wrap(zx[k])][Wrap(zy[k])]]
                    /\ bpc' = "done"
               ELSE /\ bprof' = <<>>    \* IndexError: no profile is returned
                    /\ bpc' = "failed"
  /\ UNCHANGED <<do_ab, heights, centers, cid, pidx, Z>>
  /\ UNCHANGED <<mainVars, rvmVars>>

BeamNext == AddPatch \/ Gather

SpecBeam == BeamInit /\ [][BeamNext]_vars

(***************************************************************************)
(* The main body of generateBeam.py: helpers from beamModel.               *)
(***************************************************************************)
RECURSIVE SeqSum(_, _)
SeqSum(sq, i) == IF i > Len(sq) THEN 0 ELSE sq[i] + SeqSum(sq, i + 1)

RECURSIVE SeqMax(_, _)
\* np.max of a non-empty sequence
SeqMax(sq, i) ==
  IF i = Len(sq) THEN sq[i]
  ELSE LET m == SeqMax(sq, i + 1) IN IF sq[i] > m THEN sq[i] ELSE m

\* freq = np.linspace(min_freq, max_freq, nch), in units of min_freq = chbw
freq(n) == [k \in 1 .. n |-> k]

\* bm.find_peak(profile)
find_peak(p) == SeqMax(p, 1)

\* bm.pulsetrain(n, res, prof): the profile repeated n times
pulsetrain(n, p) == [i \in 1 .. n * Len(p) |-> p[((i - 1) % Len(p)) + 1]]

\* bm.sc_time(freq, dm, iseed): a steep negative power law of frequency
sc_time(f) == 1 + (16 \div (f * f * f * f))

\* bm.broadening(tau, P, res): one-sided exponential decay, one period long
broadening(tau) == [i \in 1 .. NBin |-> ExpNeg(i - 1, tau)]

\* bm.scatter(train, bf): linear convolution, truncated to the train and
\* normalised by the kernel's sum
scatter(train, bf) ==
  LET conv(n) == SeqSum([k \in 1 .. Len(bf) |->
                           IF n - k + 1 >= 1 THEN train[n - k + 1] * bf[k] ELSE 0], 1)
  IN [n \in 1 .. Len(train) |-> conv(n) \div SeqSum(bf, 1)]

\* bm.extractpulse(train, n, res): period n of the train
extractpulse(train, n) == [i \in 1 .. NBin |-> train[(n - 1) * NBin + i]]

\* bm.noise_rms(snr, peak)
noise_rms(s, peak) == peak \div s

\* bm.add_noise(prof, rms, iseed, res): seeded noise on every sample
add_noise(p, rms, seed) ==
  [j \in 1 .. Len(p) |-> [i \in 1 .. NBin |->
     p[j][i] + rms * ((((seed + 3 * j + 5 * i) * 7 + 1) % 3) - 1)]]

\* bm.delay(f_ref, f, dm, t_res): the cold-plasma delay dm * (f_ref^-2 - f^-2)
\* in bins
delay(fref, f, dm) == TruncDiv(4 * dm * (f * f - fref * fref), f * f * fref * fref)

\* np.roll(a, shift)
roll(a, shift) == [i \in 1 .. Len(a) |-> a[((i - 1 - shift) % Len(a)) + 1]]

\* bm.avg_prof(profiles): the mean over the profiles, bin by bin
avg_prof(ps) ==
  [i \in 1 .. NBin |-> SeqSum([k \in 1 .. Len(ps) |-> ps[k][i]], 1) \div Len(ps)]

(***************************************************************************)
(* The main body of generateBeam.py: inputs.                               *)
(***************************************************************************)
\* a pulse peaking at bin b
Pulse(b) == [i \in 1 .. NBin |-> IF i = b THEN 12
                                 ELSE IF i = (b % NBin) + 1 THEN 6 ELSE 0]

\* per-channel profiles returned by generateBeam: a pulse at some bin, or a
\* line of sight that misses every patch
ProfSet == {Pulse(b) : b \in 1 .. NBin} \cup {[i \in 1 .. NBin |-> 0]}

\* values bm.find_delta_dm may return: runs of consecutive trial DMs
DmRanges == {[i \in 1 .. n |-> lo + i - 1] : n \in 0 .. MaxTrials, lo \in 0 .. 1}

\* the state after step 2 (lines 145-167)
MainInit ==
  /\ BeamIdle
  /\ RvmIdle
  /\ mpc = "scatter"
  /\ nch \in 2 .. NCh
  /\ iseed = 4
  /\ scr \in {None, "yes"}
  /\ snr \in {<<>>, <<4>>}
  /\ prof \in [1 .. nch -> ProfSet]
  /\ sc_prof = <<>> /\ peaks = <<>> /\ profile = <<>>
  /\ dm_range = <<>> /\ dm_id = 0 /\ shifted_profile = <<>>
  /\ average_profile = <<>> /\ peaks_of_average = <<>> /\ best_dm = <<>>

(***************************************************************************)
(* Step 3, scatter (lines 172-187).                                        *)
(***************************************************************************)
\* every profile goes through pulsetrain, scatter and extractpulse
Scattered(p) ==
  [fid \in 1 .. Len(p) |->
     extractpulse(scatter(pulsetrain(3, p[fid]), broadening(sc_time(freq(Len(p))[fid]))), 2)]

\* the scatter flag is not consulted
ScatterStageAlways(p, flag) == Scattered(p)

ScatterStage(p, flag) == IF flag = None THEN p ELSE Scattered(p)

Scatter ==
  /\ mpc = "scatter"
  /\ sc_prof' = ScatterStage(prof, scr)
  /\ mpc' = "noise"
  /\ UNCHANGED <<nch, iseed, scr, snr, prof, peaks, profile, dm_range, dm_id,
                 shifted_profile, average_profile, peaks_of_average, best_dm>>
  /\ UNCHANGED <<beamVars, rvmVars>>

(***************************************************************************)
(* Step 4, noise (lines 192-199).                                          *)
(***************************************************************************)
NoiseStage(sp, s, pk) ==
  IF s = <<>> THEN sp ELSE add_noise(sp, noise_rms(s[1], SeqMax(pk, 1)), iseed)

Noise ==
  /\ mpc = "noise"
  /\ LET pk == [j \in 1 .. Len(prof) |-> find_peak(sc_prof[j])]
     IN /\ peaks' = pk
        /\ profile' = NoiseStage(sc_prof, snr, pk)
  /\ mpc' = "range"
  /\ UNCHANGED <<nch, iseed, scr, snr, prof, sc_prof, dm_range, dm_id,
                 shifted_profile, average_profile, peaks_of_average, best_dm>>
  /\ UNCHANGED <<beamVars, rvmVars>>

(***************************************************************************)
(* Step 5, DM search (lines 205-221).                                      *)
(***************************************************************************)
\* lines 205-209: dm_range = bm.find_delta_dm(...)
FindRange ==
  /\ mpc = "range"
  /\ dm_range' \in DmRanges
  /\ dm_id' = 1
  /\ mpc' = "search"
  /\ UNCHANGED <<nch, iseed, scr, snr, prof, sc_prof, peaks, profile,
                 shifted_profile, average_profile, peaks_of_average, best_dm>>
  /\ UNCHANGED <<beamVars, rvmVars>>

\* lines 212-215: range(nch-1) is the channels 1 .. nch-1 of the model
ShiftedProfiles(dm) ==
  [freq_id \in 1 .. (nch - 1) |->
     roll(profile[freq_id], delay(freq(nch)[nch], freq(nch)[freq_id], dm))]

\* one pass of the loop over dm_range, lines 211-217
DmTrial ==
  /\ mpc = "search"
  /\ dm_id <= Len(dm_range)
  /\ LET sh  == ShiftedProfiles(dm_range[dm_id])
         avg == avg_prof(sh)
     IN /\ shifted_profile' = sh
        /\ average_profile' = Append(average_profile, avg)
        /\ peaks_of_average' = Append(peaks_of_average, find_peak(avg))
  /\ dm_id' = dm_id + 1
  /\ UNCHANGED <<mpc, nch, iseed, scr, snr, prof, sc_prof, peaks, profile,
                 dm_range, best_dm>>
  /\ UNCHANGED <<beamVars, rvmVars>>

\* the selection keeps the first maximum it meets
SelectStepKeepFirst(best, peak, maxpeak, dm) ==
  IF peak = maxpeak /\ best = <<>> THEN <<dm>> ELSE best

\* lines 220-221: the body of the selection loop
SelectStep(best, peak, maxpeak, dm) ==
  IF peak = maxpeak THEN <<dm>> ELSE best

RECURSIVE SelectLoop(_, _, _, _)
\* lines 219-221: for i in range(len(peaks_of_average))
SelectLoop(pk, dmr, i, best) ==
  IF i > Len(pk) THEN best
  ELSE SelectLoop(pk, dmr, i + 1, SelectStep(best, pk[i], SeqMax(pk, 1), dmr[i]))

Select ==
  /\ mpc = "search"
  /\ dm_id > Len(dm_range)
  /\ best_dm' = SelectLoop(peaks_of_average, dm_range, 1, best_dm)
  /\ mpc' = "output"
  /\ UNCHANGED <<nch, iseed, scr, snr, prof, sc_prof, peaks, profile, dm_range,
                 dm_id, shifted_profile, average_profile, peaks_of_average>>
  /\ UNCHANGED <<beamVars, rvmVars>>

(***************************************************************************)
(* Step 6, the output record (line 226).                                   *)
(***************************************************************************)
\* reading best_dm when no pass of the selection loop bound it is a NameError
Output ==
  /\ mpc = "output"
  /\ mpc' = IF best_dm = <<>> THEN "NameError" ELSE "done"
  /\ UNCHANGED <<nch, iseed, scr, snr, prof, sc_prof, peaks, profile, dm_range,
                 dm_id, shifted_profile, average_profile, peaks_of_average, best_dm>>
  /\ UNCHANGED <<beamVars, rvmVars>>

MainNext == Scatter \/ Noise \/ FindRange \/ DmTrial \/ Select \/ Output

SpecMain == MainInit /\ [][MainNext]_vars

(***************************************************************************)
(* rvm (rvm.py): numpy's functions in fixed point.                         *)
(***************************************************************************)
\* the product of two fixed-point values
Mul(a, b) == TruncDiv(a * b, FScale)

\* an argument brought into [-pi, pi)
Reduce(a) == ((a + PiFp) % (2 * PiFp)) - PiFp

RECURSIVE SinSeries(_, _, _, _)
\* a - a^3/3! + a^5/5! - ..., |a| <= pi/2
SinSeries(a, k, term, acc) ==
  IF k > 8 \/ term = 0 THEN acc
  ELSE LET t == -TruncDiv(Mul(term, a) * a, FScale * (2 * k) * (2 * k + 1))
       IN SinSeries(a, k + 1, t, acc + t)

RECURSIVE CosSeries(_, _, _, _)
\* 1 - a^2/2! + a^4/4! - ..., |a| <= pi/2
CosSeries(a, k, term, acc) ==
  IF k > 8 \/ term = 0 THEN acc
  ELSE LET t == -TruncDiv(Mul(term, a) * a, FScale * (2 * k - 1) * (2 * k))
       IN CosSeries(a, k + 1, t, acc + t)

\* np.sin
Sin(a) ==
  LET r == Reduce(a)
      h == PiFp \div 2
      f == IF r > h THEN PiFp - r ELSE IF r < -h THEN -PiFp - r ELSE r
  IN SinSeries(f, 1, f, f)

\* np.cos
Cos(a) ==
  LET r == Reduce(a)
      h == PiFp \div 2
      m == IF r < 0 THEN -r ELSE r
  IN IF m > h THEN -CosSeries(PiFp - m, 1, FScale, FScale)
     ELSE CosSeries(m, 1, FScale, FScale)

RECURSIVE AtanSeries(_, _, _, _)
\* z - z^3/3 + z^5/5 - ..., |z| <= tan(pi/8)
AtanSeries(z, k, pow, acc) ==
  IF k > 12 \/ pow = 0 THEN acc
  ELSE LET p == -Mul(Mul(pow, z), z)
       IN AtanSeries(z, k + 1, p, acc + TruncDiv(p, 2 * k + 1))

\* arctan of a fixed-point value in [0, 1]
AtanUnit(r) ==
  IF r > 4142
    THEN LET z == TruncDiv((r - FScale) * FScale, r + FScale)
         IN (PiFp \div 4) + AtanSeries(z, 1, z, z)
    ELSE AtanSeries(r, 1, r, r)

AtanPos(r) ==
  IF r > FScale THEN (PiFp \div 2) - AtanUnit((FScale * FScale) \div r)
  ELSE AtanUnit(r)

\* numer/denom of two np.float64: a zero denominator gives an infinity or,
\* for 0/0, a NaN, with a warning and no exception
Quotient(numer, denom) ==
  IF denom = 0
    THEN IF numer = 0 THEN [kind |-> "nan", v |-> 0]
         ELSE [kind |-> "inf", v |-> IF numer > 0 THEN 1 ELSE -1]
    ELSE [kind |-> "fin", v |-> TruncDiv(numer * FScale, denom)]

\* np.arctan: +-pi/2 at the infinities, NaN at NaN
ArcTan(q) ==
  IF q.kind = "nan" THEN [nan |-> TRUE, v |-> 0]
  ELSE IF q.kind = "inf" THEN [nan |-> FALSE, v |-> q.v * (PiFp \div 2)]
  ELSE [nan |-> FALSE, v |-> IF q.v >= 0 THEN AtanPos(q.v) ELSE -AtanPos(-q.v)]

\* np.deg2rad of a whole number of degrees
deg2rad(d) == TruncDiv(d * PiFp, 180)

\* np.rad2deg: r * 180 / pi, with 180/pi in lowest terms
rad2deg(r) ==
  LET d == PiFp \div 24
      n == (180 * FScale) \div 24
  IN (r \div d) * n + ((r % d) * n) \div d

(***************************************************************************)
(* rvm (rvm.py lines 5-53).  Lines 25-27 compute angRad and never use it:  *)
(* alpha, beta, phi0 and psi0 enter the formulas as they were passed.      *)
(***************************************************************************)
\* a number passed as an argument, as a fixed-point value
Fp(a) == a * FScale

\* candidate arguments, in degrees
AlphaSet == {0, 45}
BetaSet == {0, 15}
Phi0Set == {0, 10}
Psi0Set == {0, 15}
PhaseSet == {-180, 0, 40, 180}

RvmInit ==
  /\ BeamIdle
  /\ MainIdle
  /\ rpc = "loop"
  /\ alpha \in AlphaSet
  /\ beta \in BetaSet
  /\ phi0 \in Phi0Set
  /\ psi0 \in Psi0Set
  /\ xprof \in [1 .. NPts -> PhaseSet]
  /\ point = 1
  /\ allpsi = <<>>

\* line 30
zeta == alpha + beta

\* line 37
Phi(pt) == deg2rad(xprof[pt])

\* line 38
Numer(pt) == Mul(Sin(Fp(alpha)), Sin(Phi(pt) - Fp(phi0)))

\* line 39
Denom(pt) ==
  Mul(Sin(Fp(zeta)), Cos(Fp(alpha)))
    - Mul(Mul(Cos(Fp(zeta)), Sin(Fp(alpha))), Cos(Phi(pt) - Fp(phi0)))

\* line 41: psi = psi0 + np.arctan(numer/denom)
PsiRaw(pt) ==
  LET a == ArcTan(Quotient(Numer(pt), Denom(pt)))
  IN [nan |-> a.nan, v |-> IF a.nan THEN 0 ELSE Fp(psi0) + a.v]

\* lines 44-48: every comparison with a NaN is false
Restrict(psi) ==
  LET h  == PiFp \div 2
      p1 == IF ~psi.nan /\ psi.v < -h THEN [psi EXCEPT !.v = psi.v + PiFp] ELSE psi
  IN IF ~p1.nan /\ p1.v > h THEN [p1 EXCEPT !.v = p1.v - PiFp] ELSE p1

\* line 51
ToDegrees(psi) == [nan |-> psi.nan, v |-> IF psi.nan THEN 0 ELSE rad2deg(psi.v)]

\* one pass of the loop, lines 36-51
RvmPoint ==
  /\ rpc = "loop"
  /\ point <= Len(xprof)
  /\ allpsi' = Append(allpsi, ToDegrees(Restrict(PsiRaw(point))))
  /\ point' = point + 1
  /\ UNCHANGED <<rpc, alpha, beta, phi0, psi0, xprof>>
  /\ UNCHANGED <<beamVars, mainVars>>

\* line 53
RvmReturn ==
  /\ rpc = "loop"
  /\ point > Len(xprof)
  /\ rpc' = "done"
  /\ UNCHANGED <<alpha, beta, phi0, psi0, xprof, point, allpsi>>
  /\ UNCHANGED <<beamVars, mainVars>>

RvmNext == RvmPoint \/ RvmReturn

SpecRvm == RvmInit /\ [][RvmNext]_vars

(***************************************************************************)
(* Properties of generateBeam.                                             *)
(***************************************************************************)
Cells == Idx \X Idx

\* the patches whose loop body has run
Accumulated ==
  {cp \in (DOMAIN heights) \X (1 .. NPatch) :
     \/ bpc # "patches"
     \/ cp[1] < cid
     \/ cp[1] = cid /\ cp[2] < pidx}

\* cell (i, j) lies farther than 3 sigma of component c from patch p of c
Beyond3Sigma(i, j, cp) ==
  Dist2(i, j, centers[cp[1]][cp[2]][1], centers[cp[1]][cp[2]][2])
    > 9 * Sq(patch_width(heights)[cp[1]])

\* C3: after every accumulation step, with aberration off or on, every cell
\* of Z is >= 0 and every cell farther than 3 sigma (of the owning component)
\* from the center of every accumulated patch holds exactly 0.
C3_ZeroOutsideSupport ==
  \A c \in Cells :
    /\ Z[c[1]][c[2]] >= 0
    /\ (\A cp \in Accumulated : Beyond3Sigma(c[1], c[2], cp)) => Z[c[1]][c[2]] = 0

\* all patches of two components accumulated with aberration on: some cell
\* holds power, some cell lies outside every patch's 3 sigma
C3_Witness ==
  /\ bpc = "gather"
  /\ do_ab # None
  /\ Len(heights) = 2
  /\ \E c \in Cells : Z[c[1]][c[2]] > 0
  /\ \E c \in Cells : \A cp \in Accumulated : Beyond3Sigma(c[1], c[2], cp)

\* C2: the indices used to read Z lie in [0, res-1] for every line-of-sight
\* point, and the read raises no index error.
C2_IndicesClamped ==
  bpc \in {"done", "failed"} =>
    /\ bpc # "failed"
    /\ \A k \in 1 .. NLos : ZxIdx[k] \in Idx /\ ZyIdx[k] \in Idx

\* C9: for every accumulated patch the indicator is 1 for exactly the cells within 3 sigma
\* of the kernel's center (the patch center, shifted by the aberration offset
\* when aberration is on), a cell at distance 0 included.
C9_IndicatorWithin3Sigma ==
  \A cp \in Accumulated : \A c \in Cells :
    LET pc     == centers[cp[1]][cp[2]]
        sigmax == patch_width(heights)[cp[1]]
        kc     == KernelCenter(pc, cp[1], do_ab)
    IN Indicator(c[1], c[2], pc, sigmax)
         = IF Dist2(c[1], c[2], kc[1], kc[2]) <= 9 * Sq(sigmax) THEN 1 ELSE 0

\* the point lies inside the grid
InGrid(px, py) == px >= xmin /\ px < xmax /\ py >= ymin /\ py < ymax

\* the cell of Z that holds the grid node of the point (px, py): the cell whose
\* X is the point's x node and whose Y is the point's y node
RepCell(px, py) ==
  CHOOSE c \in Cells : /\ X[c[1]][c[2]] = x[ToIndex(px, xmin, dx)]
                       /\ Y[c[1]][c[2]] = y[ToIndex(py, ymin, dy)]

\* C10: profile sample k is the value of Z at the cell that represents the
\* line-of-sight point (x_k, y_k), for every point inside the grid.
C10_ProfileReadsPointCell ==
  bpc = "done" =>
    \A k \in 1 .. NLos :
      InGrid(xlos[k], ylos[k]) =>
        bprof[k] = Z[RepCell(xlos[k], ylos[k])[1]][RepCell(xlos[k], ylos[k])[2]]

(***************************************************************************)
(* Properties of the main body.                                            *)
(***************************************************************************)
\* the indices of peaks_of_average that attain its maximum
MaxIdx == {i \in 1 .. Len(peaks_of_average) :
             peaks_of_average[i] = SeqMax(peaks_of_average, 1)}

FirstMaxIdx == CHOOSE i \in MaxIdx : \A j \in MaxIdx : i <= j
LastMaxIdx == CHOOSE i \in MaxIdx : \A j \in MaxIdx : j <= i

Selected == mpc \in {"output", "done", "NameError"}

\* C1 as stated: when several trial DMs attain the maximal averaged peak,
\* best_dm is the one with the smallest index in dm_range.
C1_FirstOccurrence ==
  (Selected /\ Cardinality(MaxIdx) >= 2) => best_dm = <<dm_range[FirstMaxIdx]>>

\* C1 as amended: when several trial DMs attain the maximal averaged peak,
\* best_dm is the one with the largest index in dm_range (the last occurrence
\* of the maximum).
C1_LastOccurrence ==
  (Selected /\ Cardinality(MaxIdx) >= 2) => best_dm = <<dm_range[LastMaxIdx]>>

\* a tie between two trial DMs, settled
C1_Witness ==
  /\ Selected
  /\ Cardinality(MaxIdx) >= 2
  /\ dm_range[FirstMaxIdx] # dm_range[LastMaxIdx]
  /\ SeqMax(peaks_of_average, 1) > 0
  /\ best_dm = <<dm_range[LastMaxIdx]>>

\* C5: when the pipeline reaches the output record, best_dm is bound and is an
\* element of dm_range whose averaged peak is the maximum of peaks_of_average,
\* for every dm_range, an empty one included.
C5_BestDmBoundAndMaximal ==
  mpc = "output" =>
    /\ best_dm # <<>>
    /\ \E i \in 1 .. Len(dm_range) :
         /\ dm_range[i] = best_dm[1]
         /\ peaks_of_average[i] = SeqMax(peaks_of_average, 1)

\* C6: a stage that is switched off is the identity: with the scatter flag
\* unset sc_prof equals prof, and with SNR unset profile equals sc_prof,
\* whatever the other switch is.
C6_DisabledStagesAreIdentity ==
  /\ (mpc \notin {"idle", "scatter"} /\ scr = None) => sc_prof = prof
  /\ (mpc \notin {"idle", "scatter", "noise"} /\ snr = <<>>) => profile = sc_prof

\* scattering off and noise on: sc_prof is prof, and the noise changed it
C6_Witness ==
  /\ mpc = "range"
  /\ scr = None
  /\ snr # <<>>
  /\ sc_prof = prof
  /\ profile # sc_prof

\* C8: when avg_prof is called, shifted_profile holds one entry per channel,
\* the reference channel included: nch entries.
C8_AllChannelsAveraged ==
  average_profile # <<>> => Len(shifted_profile) = nch

(***************************************************************************)
(* Properties of rvm.                                                      *)
(***************************************************************************)
\* C4: every position angle of the returned list lies in (-90, 90] degrees.
C4_AnglesInRange ==
  \A k \in 1 .. Len(allpsi) :
    ~allpsi[k].nan => (allpsi[k].v > Fp(-90) /\ allpsi[k].v <= Fp(90))

\* C7: a phase whose denominator is zero gets a defined position angle: the
\* returned list holds no NaN there.
C7_ZeroDenominatorDefined ==
  \A k \in 1 .. Len(allpsi) : Denom(k) = 0 => ~allpsi[k].nan

====
